---- MODULE Spec2Model ----
(***************************************************************************)
(* Claus breast-cancer risk calculator (risk_models/claus/claus.py).       *)
(*                                                                         *)
(* Risks are probabilities with three decimals; the model keeps them as    *)
(* integers in thousandths (0.211 is 211).  An age that Python treats as   *)
(* falsy (None, 0, the default []) is the integer 0.  An optional table    *)
(* index is a tuple of length at most one: << >> is Python's None.         *)
(***************************************************************************)
EXTENDS Integers, Sequences, FiniteSets

VARIABLES
    pc,          \* "ready": a caller holds its arguments; "done": calculate_risk returned
    args,        \* the caller's argument objects (their current contents)
    passed,      \* the argument values as they were when the caller built them
    defaults,    \* the default-argument list objects of calculate_risk (shared by all calls)
    result,      \* what the last call returned or raised
    consulted,   \* the (table, relative indices) lookups the last call made, in order
    lowerRows    \* the patient row indices the last call read as lower current-age row

vars == <<pc, args, passed, defaults, result, consulted, lowerRows>>

----------------------------------------------------------------------------
(* Bounds of the model *)

\* at most this many ages over all the relative lists of one call
MaxRelatives == 2

\* patient ages: below the range, in 20..28, mid-range, the upper end, above
PatientAges == {18, 25, 50, 79, 80}
\* mother_onset_age: missing, valid, above the range
MotherAges == {0, 40, 85}
\* list entries: missing, two valid bins, above the range
RelAges == {0, 35, 45, 85}

----------------------------------------------------------------------------
(* Values *)

VALID_MIN_AGE == 20
VALID_MAX_AGE == 79

None == [tag |-> "None", value |-> 0]
Risk(v) == [tag |-> "risk", value |-> v]
IndexError == [tag |-> "IndexError", value |-> 0]
TypeError == [tag |-> "TypeError", value |-> 0]
ZeroDivisionError == [tag |-> "ZeroDivisionError", value |-> 0]

IsRisk(r) == r.tag = "risk"
\* a lookup or a call that raised
Raised(r) == r.tag \in {"IndexError", "TypeError", "ZeroDivisionError"}

NoIndex == << >>

ListFields == {"daughter_onset_ages", "full_sister_onset_ages",
               "maternal_aunt_onset_ages", "paternal_aunt_onset_ages",
               "maternal_grandmother_onset_ages", "paternal_grandmother_onset_ages",
               "maternal_half_sister_onset_ages", "paternal_half_sister_onset_ages"}

----------------------------------------------------------------------------
(* The tables (risk_models/claus/claus_tables.py) *)

\* patient rows: ages 29, 39, 49, 59, 69, 79; row -1 (the last) is the lifetime row
NumRows == 6
\* relative onset-age bins [20,29] .. [70,79]
NumBins == 6

\* share of the lifetime risk reached at the age of each patient row, in thousandths
RowShare == <<30, 110, 280, 530, 800, 1000>>

Cell(lifetime, row) == (lifetime * RowShare[row + 1]) \div 1000

OneRelativeTable(lifetimeByBin) ==
    [row \in 0..(NumRows - 1) |->
        [i \in 0..(NumBins - 1) |-> Cell(lifetimeByBin[i + 1], row)]]

TwoRelativeTable(youngest, step) ==
    [row \in 0..(NumRows - 1) |->
        [i \in 0..(NumBins - 1) |->
            [j \in 0..(NumBins - 1) |-> Cell(youngest - step * (i + j), row)]]]

ClausTables ==
    [ONE_FIRST_DEG_TABLE         |-> OneRelativeTable(<<211, 165, 132, 110, 96, 88>>),
     ONE_SECOND_DEG_TABLE        |-> OneRelativeTable(<<142, 120, 104, 95, 90, 88>>),
     TWO_FIRST_DEG_TABLE         |-> TwoRelativeTable(483, 32),
     MOTHER_MATERNAL_AUNT        |-> TwoRelativeTable(443, 29),
     MOTHER_PATERNAL_AUNT        |-> TwoRelativeTable(297, 17),
     TWO_SEC_DEG_DIFF_SIDE_TABLE |-> TwoRelativeTable(214, 11),
     TWO_SEC_DEG_SAME_SIDE_TABLE |-> TwoRelativeTable(274, 16)]

----------------------------------------------------------------------------
(* Python list semantics *)

\* a list index Python accepts for a list of length n (negative ones count from the end)
InRange(i, n) == -n <= i /\ i < n
Norm(i, n) == IF i < 0 THEN i + n ELSE i

RECURSIVE Insert(_, _)
Insert(x, s) ==
    IF s = << >> THEN <<x>>
    ELSE IF x <= Head(s) THEN <<x>> \o s
    ELSE <<Head(s)>> \o Insert(x, Tail(s))

RECURSIVE sorted(_)
sorted(s) == IF s = << >> THEN << >> ELSE Insert(Head(s), sorted(Tail(s)))

\* Python truthiness of an age
Truthy(x) == x # 0


----------------------------------------------------------------------------
(* claus.py *)

\* the filter without its upper bound
ValidAge_no_upper_bound(age) == age >= VALID_MIN_AGE

\* [age for age in ages if VALID_MAX_AGE >= age >= VALID_MIN_AGE]
ValidAge(age) == VALID_MAX_AGE >= age /\ age >= VALID_MIN_AGE

\* the filter without the sort
sort_ages_unsorted(ages) == SelectSeq(ages, ValidAge)

\* sorted([age for age in ages if VALID_MAX_AGE >= age >= VALID_MIN_AGE])
sort_ages(ages) == sorted(SelectSeq(ages, ValidAge))

\* the argument after a filter and sort made in place
sort_ages_in_place(ages) == sorted(SelectSeq(ages, ValidAge))

\* the list object handed to sort_ages, after the call: the comprehension and
\* sorted() build new lists, the argument is only read
sort_ages_argument(ages) == ages

\* bins counted from 29, as the patient rows are
bin_age_to_index_from_29(age) == IF ~Truthy(age) THEN NoIndex ELSE <<(age - 29) \div 10>>

\* None if not age else (age - 20) // 10
bin_age_to_index(age) == IF ~Truthy(age) THEN NoIndex ELSE <<(age - 20) \div 10>>

\* table[patient_index][relative1_index][relative2_index], or without the
\* last index when relative2_index is None
lookup_claus_table(table, patient_index, relative1_index, relative2_index) ==
    IF ~InRange(patient_index, NumRows) THEN IndexError
    ELSE IF relative1_index = NoIndex THEN TypeError
    ELSE IF ~InRange(relative1_index[1], NumBins) THEN IndexError
    ELSE LET row == ClausTables[table][Norm(patient_index, NumRows)]
                       [Norm(relative1_index[1], NumBins)]
         IN  IF relative2_index = NoIndex THEN Risk(row)
             ELSE IF ~InRange(relative2_index[1], NumBins) THEN IndexError
             ELSE Risk(row[Norm(relative2_index[1], NumBins)])

\* divmod(patient_age - 29, 10)
patient_age_lower_bin_index(patient_age) == (patient_age - 29) \div 10
patient_age_over_bin(patient_age) == (patient_age - 29) % 10

\* round(n / d, 3) in thousandths, for d > 0: the nearest integer to 1000 * n / d,
\* a tie going away from zero
Round3(n, d) ==
    IF n >= 0 THEN (2000 * n + d) \div (2 * d)
    ELSE -((2000 * (-n) + d) \div (2 * d))

get_lifetime_risk(table, patient_age, relative1_index, relative2_index) ==
    LET lower == patient_age_lower_bin_index(patient_age)
        over == patient_age_over_bin(patient_age)
        lifetime_risk == lookup_claus_table(table, -1, relative1_index, relative2_index)
        current == lookup_claus_table(table, lower, relative1_index, relative2_index)
        upper == lookup_claus_table(table, lower + 1, relative1_index, relative2_index)
    IN  IF Raised(lifetime_risk) THEN lifetime_risk
        ELSE IF Raised(current) THEN current
        ELSE IF over # 0 /\ Raised(upper) THEN upper
        ELSE LET \* current_age_risk in ten-thousandths
                 current_age_risk ==
                     IF over # 0
                     THEN 10 * current.value + (upper.value - current.value) * over
                     ELSE 10 * current.value
             IN  IF current_age_risk = 10000 THEN ZeroDivisionError
                 ELSE IF current_age_risk > 10000
                 THEN Risk(Round3(current_age_risk - 10 * lifetime_risk.value,
                                  current_age_risk - 10000))
                 ELSE Risk(Round3(10 * lifetime_risk.value - current_age_risk,
                                  10000 - current_age_risk))

\* a parameter of calculate_risk: the caller's list, or the default list object
\* when the caller left the field out (an empty entry of the argument record)
Param(dflt, a, f) == IF a[f] = << >> THEN dflt[f] ELSE a[f]

\* [x for x in ... if x]
Truthies(s) == SelectSeq(s, Truthy)

first_degree_ages(dflt, a) ==
    sort_ages(Truthies(
        (IF Truthy(a.mother_onset_age) THEN <<a.mother_onset_age>> ELSE << >>)
        \o Param(dflt, a, "full_sister_onset_ages")
        \o Param(dflt, a, "daughter_onset_ages")))

second_degree_ages(dflt, a) ==
    sort_ages(Truthies(
        Param(dflt, a, "maternal_aunt_onset_ages")
        \o Param(dflt, a, "paternal_aunt_onset_ages")
        \o Param(dflt, a, "maternal_grandmother_onset_ages")
        \o Param(dflt, a, "paternal_grandmother_onset_ages")
        \o Param(dflt, a, "maternal_half_sister_onset_ages")
        \o Param(dflt, a, "paternal_half_sister_onset_ages")))

maternal_second_degree_ages(dflt, a) ==
    sort_ages(Truthies(
        Param(dflt, a, "maternal_aunt_onset_ages")
        \o Param(dflt, a, "maternal_grandmother_onset_ages")
        \o Param(dflt, a, "maternal_half_sister_onset_ages")))

paternal_second_degree_ages(dflt, a) ==
    sort_ages(Truthies(
        Param(dflt, a, "paternal_aunt_onset_ages")
        \o Param(dflt, a, "paternal_grandmother_onset_ages")
        \o Param(dflt, a, "paternal_half_sister_onset_ages")))

Lookup(table, relative1_index, relative2_index) ==
    [table |-> table, relative1_index |-> relative1_index,
     relative2_index |-> relative2_index]

\* one first-degree or one second-degree relative
OneRelativeLookups(first, second) ==
    LET one(ages, table) ==
            IF ages # << >>
            THEN <<Lookup(table, bin_age_to_index(ages[1]), NoIndex)>> ELSE << >>
    IN  one(first, "ONE_FIRST_DEG_TABLE") \o one(second, "ONE_SECOND_DEG_TABLE")

\* the mother and an aunt
MotherAuntLookups(mother_onset_age, maternal_aunt_onset_ages, paternal_aunt_onset_ages) ==
    LET aunt(raw, table) ==
            LET ages == sort_ages(raw)
            IN  IF ages # << >>
                THEN <<Lookup(table, bin_age_to_index(mother_onset_age),
                              bin_age_to_index(ages[1]))>>
                ELSE << >>
    IN  IF Truthy(mother_onset_age)
        THEN aunt(maternal_aunt_onset_ages, "MOTHER_MATERNAL_AUNT")
             \o aunt(paternal_aunt_onset_ages, "MOTHER_PATERNAL_AUNT")
        ELSE << >>

\* two relatives of the same degree (and, for the second degree, the same side)
SameSideLookups(first, maternal, paternal) ==
    LET two(ages, table) ==
            IF Len(ages) > 1
            THEN <<Lookup(table, bin_age_to_index(ages[1]), bin_age_to_index(ages[2]))>>
            ELSE << >>
    IN  two(first, "TWO_FIRST_DEG_TABLE")
        \o two(maternal, "TWO_SEC_DEG_SAME_SIDE_TABLE")
        \o two(paternal, "TWO_SEC_DEG_SAME_SIDE_TABLE")

\* two second-degree relatives on opposite sides
DiffSideLookups(maternal, paternal) ==
    IF maternal # << >> /\ paternal # << >>
    THEN <<Lookup("TWO_SEC_DEG_DIFF_SIDE_TABLE",
                  bin_age_to_index(maternal[1]), bin_age_to_index(paternal[1]))>>
    ELSE << >>

\* the get_lifetime_risk calls of calculate_risk, in the order of the code
Lookups(dflt, a) ==
    LET first == first_degree_ages(dflt, a)
        second == second_degree_ages(dflt, a)
        maternal == maternal_second_degree_ages(dflt, a)
        paternal == paternal_second_degree_ages(dflt, a)
    IN  OneRelativeLookups(first, second)
        \o MotherAuntLookups(a.mother_onset_age,
                             Param(dflt, a, "maternal_aunt_onset_ages"),
                             Param(dflt, a, "paternal_aunt_onset_ages"))
        \o SameSideLookups(first, maternal, paternal)
        \o DiffSideLookups(maternal, paternal)

\* if VALID_MAX_AGE < patient_age < VALID_MIN_AGE: return None
PatientAgeRejected(patient_age) ==
    VALID_MAX_AGE < patient_age /\ patient_age < VALID_MIN_AGE

Max(x, y) == IF x >= y THEN x ELSE y

\* return risk
Returned_as_is(risk) == Risk(risk)

\* return risk if risk > 0 else None
Returned(risk) == IF risk > 0 THEN Risk(risk) ELSE None

\* risk = max(risk, get_lifetime_risk(...)) over the lookups todo; an exception
\* ends the call.  made: the lookups made so far.
RECURSIVE Accumulate(_, _, _, _)
Accumulate(patient_age, todo, risk, made) ==
    IF todo = << >> THEN [result |-> Returned(risk), consulted |-> made]
    ELSE LET l == Head(todo)
             r == get_lifetime_risk(l.table, patient_age,
                                    l.relative1_index, l.relative2_index)
         IN  IF Raised(r) THEN [result |-> r, consulted |-> Append(made, l)]
             ELSE Accumulate(patient_age, Tail(todo),
                             Max(risk, r.value), Append(made, l))

calculate_risk(dflt, a) ==
    IF PatientAgeRejected(a.patient_age)
    THEN [result |-> None, consulted |-> << >>]
    ELSE Accumulate(a.patient_age, Lookups(dflt, a), 0, << >>)

\* the patient rows read as lower current-age row (line 135) by the lookups made:
\* get_lifetime_risk reads it once the lifetime cell has been read
LowerRowsRead(patient_age, made) ==
    {patient_age_lower_bin_index(patient_age) : k \in
        {k \in 1..Len(made) :
            ~Raised(lookup_claus_table(made[k].table, -1,
                                       made[k].relative1_index,
                                       made[k].relative2_index))}}

AuntFields == {"maternal_aunt_onset_ages", "paternal_aunt_onset_ages"}

\* line 87 hands the aunt list itself to sort_ages, when a mother onset age was
\* supplied; every other list is only read, by + into a new list
HandedToSortAges(a, f) ==
    /\ f \in AuntFields
    /\ ~PatientAgeRejected(a.patient_age)
    /\ Truthy(a.mother_onset_age)

\* the caller's argument objects after a call
ArgsAfterCall(a) ==
    [f \in DOMAIN a |->
        IF HandedToSortAges(a, f) /\ a[f] # << >>
        THEN sort_ages_argument(a[f]) ELSE a[f]]

\* the default list objects after a call
DefaultsAfterCall(dflt, a) ==
    [f \in DOMAIN dflt |->
        IF HandedToSortAges(a, f) /\ a[f] = << >>
        THEN sort_ages_argument(dflt[f]) ELSE dflt[f]]

----------------------------------------------------------------------------
(* Callers *)

EmptyHistory == [f \in ListFields |-> << >>]

\* the relative lists holding at most n ages in all
RECURSIVE Histories(_)
Histories(n) ==
    IF n = 0 THEN {EmptyHistory}
    ELSE LET fewer == Histories(n - 1)
         IN  fewer \cup {[h EXCEPT ![f] = Append(@, age)] :
                            h \in fewer, f \in ListFields, age \in RelAges}

Arguments(patient_age, mother_onset_age, h) ==
    [f \in ListFields \cup {"patient_age", "mother_onset_age"} |->
        IF f = "patient_age" THEN patient_age
        ELSE IF f = "mother_onset_age" THEN mother_onset_age
        ELSE h[f]]

Inputs ==
    {Arguments(p, m, h) : p \in PatientAges, m \in MotherAges, h \in Histories(MaxRelatives)}

\* other callers of calculate_risk, whose calls run before this caller's: one
\* leaves the aunt lists out, one supplies an unsorted one
OtherInputs ==
    {Arguments(50, 40, [EmptyHistory EXCEPT !["maternal_aunt_onset_ages"] = s]) :
        s \in {<< >>, <<45, 35>>}}

Init ==
    /\ pc = "ready"
    /\ args \in Inputs
    /\ passed = args
    /\ defaults = EmptyHistory
    /\ result = None
    /\ consulted = << >>
    /\ lowerRows = {}

\* result = calculate_risk(**args)
Call ==
    /\ pc = "ready"
    /\ LET out == calculate_risk(defaults, args)
       IN  /\ result' = out.result
           /\ consulted' = out.consulted
           /\ lowerRows' = LowerRowsRead(args.patient_age, out.consulted)
    /\ args' = ArgsAfterCall(args)
    /\ defaults' = DefaultsAfterCall(defaults, args)
    /\ pc' = "done"
    /\ UNCHANGED passed

\* another caller's call: it shares the default list objects
OtherCall ==
    /\ pc = "ready"
    /\ \E b \in OtherInputs : defaults' = DefaultsAfterCall(defaults, b)
    /\ UNCHANGED <<pc, args, passed, result, consulted, lowerRows>>

Next == Call \/ OtherCall

Spec == Init /\ [][Next]_vars

----------------------------------------------------------------------------
(* Properties *)

Done == pc = "done"

\* what calculate_risk returns for the arguments a, as a function of a alone
Pure(a) == calculate_risk(EmptyHistory, a).result

MadeLookups == {consulted[k] : k \in 1..Len(consulted)}

\* the relative indices handed to get_lifetime_risk by the last call
RelativeIndices ==
    UNION {{l.relative1_index[k] : k \in 1..Len(l.relative1_index)}
           \cup {l.relative2_index[k] : k \in 1..Len(l.relative2_index)} :
           l \in MadeLookups}

\* C1: for a patient age outside [20,79] calculate_risk returns None, whatever
\* the relatives: no table is looked up, nothing is raised, no number returned.
C1_OutOfRangePatientAgeNoResult ==
    (Done /\ ~ValidAge(passed.patient_age))
        => (result = None /\ consulted = << >>)

\* C2: every relative bin index handed to get_lifetime_risk is in 0..5 (its
\* onset age lies in [20,79]), the mother's index in the mother-plus-aunt
\* lookups included.
C2_RelativeIndicesInRange ==
    Done => \A i \in RelativeIndices : i \in 0..(NumBins - 1)

\* the arguments with every onset age outside [20,79] removed
WithoutInvalidAges(a) ==
    [f \in DOMAIN a |->
        IF f = "patient_age" THEN a[f]
        ELSE IF f = "mother_onset_age" THEN (IF ValidAge(a[f]) THEN a[f] ELSE 0)
        ELSE SelectSeq(a[f], ValidAge)]

\* C3: for a valid patient age, an onset age outside [20,79] behaves as if the
\* relative had not been supplied: the result equals the result for the
\* arguments with those ages removed.
C3_OutOfRangeAgesIgnored ==
    (Done /\ ValidAge(passed.patient_age))
        => result = Pure(WithoutInvalidAges(passed))

\* no relative at all: no mother onset age, every list empty or all missing values
NoRelatives(a) ==
    /\ ~Truthy(a.mother_onset_age)
    /\ \A f \in ListFields : \A k \in 1..Len(a[f]) : ~Truthy(a[f][k])

\* C4: for a patient age in [20,79] and no relative (every field empty, absent
\* or holding only missing values) calculate_risk returns None and consults no
\* table.
C4_NoRelativesNoResult ==
    (Done /\ ValidAge(passed.patient_age) /\ NoRelatives(passed))
        => (result = None /\ consulted = << >>)

\* a list of missing values was supplied, and the call returned None
C4_Witness ==
    /\ Done
    /\ passed.patient_age = 50
    /\ NoRelatives(passed)
    /\ passed.maternal_aunt_onset_ages = <<0, 0>>
    /\ result = None
    /\ consulted = << >>

Take(s, n) == SubSeq(s, 1, IF Len(s) < n THEN Len(s) ELSE n)

\* the arguments with entries i and j of list f exchanged
Swapped(a, f, i, j) == [a EXCEPT ![f] = [@ EXCEPT ![i] = a[f][j], ![j] = a[f][i]]]

\* the arguments with one more onset age in list f
WithAge(a, f, age) == [a EXCEPT ![f] = Append(@, age)]

\* the arguments with entry k of list f changed to age
WithAgeAt(a, f, k, age) == [a EXCEPT ![f] = [@ EXCEPT ![k] = age]]

\* the arguments without entry k of list f
WithoutAgeAt(a, f, k) ==
    [a EXCEPT ![f] = SubSeq(@, 1, k - 1) \o SubSeq(@, k + 1, Len(@))]

ValidRelAges == {age \in RelAges : ValidAge(age)}

\* permuting the ages inside a list does not change the result
PermutationInvariant ==
    \A f \in ListFields : \A i, j \in 1..Len(passed[f]) :
        i < j => Pure(Swapped(passed, f, i, j)) = result

\* the two youngest valid ages of each derived category
CategoryYoungest(a) ==
    <<Take(first_degree_ages(EmptyHistory, a), 2),
      Take(second_degree_ages(EmptyHistory, a), 2),
      Take(maternal_second_degree_ages(EmptyHistory, a), 2),
      Take(paternal_second_degree_ages(EmptyHistory, a), 2)>>

\* the youngest valid age of each aunt list
AuntYoungest(a) ==
    <<Take(SelectSeq(sorted(a.maternal_aunt_onset_ages), ValidAge), 1),
      Take(SelectSeq(sorted(a.paternal_aunt_onset_ages), ValidAge), 1)>>

\* the patient age is valid and the mother's onset age is missing or valid
InRangeArguments(a) ==
    /\ ValidAge(a.patient_age)
    /\ Truthy(a.mother_onset_age) => ValidAge(a.mother_onset_age)

AtLeast(before, after) ==
    IsRisk(before) => (IsRisk(after) /\ after.value >= before.value)

C7_Monotone ==
    (Done /\ ValidAge(passed.patient_age)) =>
        /\ \A f \in ListFields : \A k \in 1..Len(passed[f]) :
            ValidAge(passed[f][k])
                => AtLeast(Pure(WithoutAgeAt(passed, f, k)), result)
        /\ ValidAge(passed.mother_onset_age)
                => AtLeast(Pure([passed EXCEPT !.mother_onset_age = 0]), result)

\* scenario C: patient_age=50, mother_onset_age=40, maternal_aunt_onset_ages=[35]
ScenarioC ==
    Arguments(50, 40, [EmptyHistory EXCEPT !["maternal_aunt_onset_ages"] = <<35>>])

MotherAlone == Lookup("ONE_FIRST_DEG_TABLE", <<2>>, NoIndex)
AuntAlone == Lookup("ONE_SECOND_DEG_TABLE", <<1>>, NoIndex)
MotherAndAunt == Lookup("MOTHER_MATERNAL_AUNT", <<2>>, <<1>>)

\* the value of one lookup for the patient age of scenario C
ValueC(l) ==
    get_lifetime_risk(l.table, 50, l.relative1_index, l.relative2_index).value

\* C8 as stated: in scenario C the call consults the mother-and-maternal-aunt
\* table with indices (2,1) and the one-first-degree table for the mother, and
\* returns the maximum of exactly these two lookups.
C8_ScenarioTwoLookups ==
    (Done /\ passed = ScenarioC) =>
        /\ MadeLookups = {MotherAlone, MotherAndAunt}
        /\ result = Risk(Max(ValueC(MotherAlone), ValueC(MotherAndAunt)))

\* C8 as amended: in scenario C the call consults the one-first-degree table
\* for the mother (index 2), the one-second-degree table for the aunt (index 1)
\* and the mother-and-maternal-aunt table with indices (2,1), and returns the
\* maximum of exactly these three lookups.
C8_ScenarioThreeLookups ==
    (Done /\ passed = ScenarioC) =>
        /\ consulted = <<MotherAlone, AuntAlone, MotherAndAunt>>
        /\ result = Risk(Max(ValueC(MotherAlone),
                             Max(ValueC(AuntAlone), ValueC(MotherAndAunt))))

C8_Witness == Done /\ passed = ScenarioC /\ IsRisk(result)

\* the set of ages of a list, those of them that are not missing values, and
\* the least of a non-empty set of ages
Ages(s) == {s[k] : k \in 1..Len(s)}
SuppliedAges(s) == {age \in Ages(s) : age # 0}
Youngest(S) == CHOOSE x \in S : \A y \in S : x <= y

\* the mother-plus-aunt step was reached: a valid patient age lets the
\* one-relative lookups before it return
MotherAuntStepReached ==
    Done /\ ValidAge(passed.patient_age) /\ Truthy(passed.mother_onset_age)

\* C9 as stated: in the mother-plus-aunt step the aunt list is not filtered:
\* whenever the maternal (paternal) aunt list holds an age, the
\* mother-and-aunt table is looked up with the bin of its youngest age, in
\* [20,79] or not.
C9_AuntsNotFiltered ==
    MotherAuntStepReached =>
        /\ SuppliedAges(passed.maternal_aunt_onset_ages) # {} =>
            \E l \in MadeLookups :
                /\ l.table = "MOTHER_MATERNAL_AUNT"
                /\ l.relative2_index =
                     <<(Youngest(SuppliedAges(passed.maternal_aunt_onset_ages)) - 20) \div 10>>
        /\ (SuppliedAges(passed.paternal_aunt_onset_ages) # {} /\ ~Raised(result)) =>
            \E l \in MadeLookups :
                /\ l.table = "MOTHER_PATERNAL_AUNT"
                /\ l.relative2_index =
                     <<(Youngest(SuppliedAges(passed.paternal_aunt_onset_ages)) - 20) \div 10>>

\* the lookups of one mother-and-aunt table are: none when the aunt list holds
\* no age in [20,79], else the one with the bin of its youngest age in [20,79]
AuntLookupFiltered(table, raw) ==
    LET valid == {age \in Ages(raw) : VALID_MIN_AGE <= age /\ age <= VALID_MAX_AGE}
        made == {l \in MadeLookups : l.table = table}
    IN  IF valid = {} THEN made = {}
        ELSE made = {Lookup(table, <<(passed.mother_onset_age - 20) \div 10>>,
                            <<(Youngest(valid) - 20) \div 10>>)}

\* C9 as amended: in the mother-plus-aunt step the aunt list goes through
\* sort_ages, which drops the ages outside [20,79]: the mother-and-aunt table
\* is looked up when the list holds an age in [20,79], with the bin of the
\* youngest such age, and is not looked up otherwise.
C9_AuntsFiltered ==
    MotherAuntStepReached =>
        /\ AuntLookupFiltered("MOTHER_MATERNAL_AUNT", passed.maternal_aunt_onset_ages)
        /\ ~Raised(result) =>
            AuntLookupFiltered("MOTHER_PATERNAL_AUNT", passed.paternal_aunt_onset_ages)

\* a mother, and an aunt list whose only age is above the range: no
\* mother-and-aunt lookup was made
C9_Witness ==
    /\ MotherAuntStepReached
    /\ passed.mother_onset_age = 40
    /\ passed.maternal_aunt_onset_ages = <<85>>
    /\ IsRisk(result)
    /\ \A l \in MadeLookups : l.table # "MOTHER_MATERNAL_AUNT"

\* C10: for a patient age in 20..78 the row read as lower current-age row is
\* one of the patient-age-bin rows 0..N, never the lifetime row (index -1).
C10_LowerRowNotLifetime ==
    (Done /\ passed.patient_age \in 20..78) =>
        \A row \in lowerRows :
            /\ row \in 0..(NumRows - 1)
            /\ Norm(row, NumRows) # Norm(-1, NumRows)

====
